---- MODULE Spec2Model ----
(***************************************************************************)
(* Model of neovim-gtk's src/nvim/client.rs: the NeovimClient handle with  *)
(* its lifecycle state, the exclusive slot (RefCell<Option<Neovim>>), the  *)
(* shared slot (Arc<Mutex<Option<Neovim>>>) and the NeovimRef borrowed     *)
(* reference.  One owning thread uses the NeovimClient; worker threads use *)
(* clones of the NeovimClientAsync returned by set_nvim_async.             *)
(*                                                                         *)
(* A call that reaches Mutex::lock() is split in two steps: the call up    *)
(* to the lock() (the thread then waits), and the rest of the function     *)
(* once the lock is free.  Everything else is one step per call.           *)
(* std::sync::Mutex is not reentrant: a thread that locks a mutex it       *)
(* already holds waits forever.  A panic unwinds the thread: the           *)
(* references it holds are dropped and a guard dropped while panicking     *)
(* poisons the mutex.                                                      *)
(***************************************************************************)
EXTENDS Integers, Sequences, FiniteSets, TLC

\* ---- bounds ------------------------------------------------------------
NWorkers == 2
MaxSessions == 3
MaxModeLen == 1

\* ---- threads, sessions -------------------------------------------------
Owner == 0
Workers == 1..NWorkers
Threads == {Owner} \cup Workers
Free == -1
None == 0
Sessions == 1..MaxSessions

NeovimClientState == {"Uninitialized", "InitInProgress", "Initialized", "Error"}

\* NeovimRef variants; "None" is the absent result / no reference held.
NeovimRef == {"SingleThreaded", "MultiThreaded"}

\* ---- the reply of get_mode() -------------------------------------------
\* A reply is Err or Ok(mode), mode a list of (key, value) entries.  A key
\* is a string ("blocking", "mode") or a value that is not a string
\* ("nonstr"); a value is a boolean or a value that is not a boolean
\* ("nonbool").  The entries drawn: "blocking" with each kind of value, and
\* the other two kinds of key with a value that is not a boolean.
Keys == {"blocking", "mode", "nonstr"}
Values == {"true", "false", "nonbool"}
Entries == ({"blocking"} \X Values) \cup ({"mode", "nonstr"} \X {"nonbool"})
Modes == UNION {[1..n -> Entries] : n \in 0..MaxModeLen}
NoReply == [ok |-> FALSE, mode |-> << <<"none", "none">> >>]
ModeReplies == {[ok |-> FALSE, mode |-> <<>>]} \cup {[ok |-> TRUE, mode |-> m] : m \in Modes}

VARIABLES
    state,        \* NeovimClient.state : Cell<NeovimClientState>
    nvim,         \* NeovimClient.nvim : the exclusive slot, None or a session
    nvim_async,   \* NeovimClientAsync.nvim : the shared slot, None or a session
    holder,       \* the thread holding the shared slot's Mutex, or Free
    poisoned,     \* the Mutex's poison flag
    borrowed,     \* the RefCell's borrow flag (a RefMut is alive)
    pc,           \* per thread: "idle", the lock() it waits in, or "panicked"
    ref,          \* per thread: the NeovimRef it holds, or "None"
    arg,          \* the session passed to the set_nvim_async in progress
    cloned,       \* a NeovimClientAsync clone has been handed out
    last,         \* the last call step: thread, operation, outcome, mode reply
    init_had,     \* a slot held a session at the latest set_initialized()
    init_cleared  \* a clear() has emptied a slot since the latest set_initialized()

vars == <<state, nvim, nvim_async, holder, poisoned, borrowed, pc, ref, arg,
          cloned, last, init_had, init_cleared>>

Event(t, op, res) == [thr |-> t, op |-> op, res |-> res, reply |-> NoReply]

Init ==
    /\ state = "Uninitialized"
    /\ nvim = None
    /\ nvim_async = None
    /\ holder = Free
    /\ poisoned = FALSE
    /\ borrowed = FALSE
    /\ pc = [t \in Threads |-> "idle"]
    /\ ref = [t \in Threads |-> "None"]
    /\ arg = None
    /\ cloned = FALSE
    /\ last = Event(Owner, "new", "done")
    /\ init_had = FALSE
    /\ init_cleared = FALSE

\* ---- panics ------------------------------------------------------------
\* Thread t panics; guard is TRUE when the panicking function holds the
\* MutexGuard it has just acquired.  Unwinding drops t's reference; a guard
\* dropped while panicking poisons the mutex and releases it.
Unwind(t, guard, op) ==
    /\ pc' = [pc EXCEPT ![t] = "panicked"]
    /\ ref' = [ref EXCEPT ![t] = "None"]
    /\ holder' = IF guard \/ holder = t THEN Free ELSE holder
    /\ poisoned' = (poisoned \/ guard \/ holder = t)
    /\ borrowed' = IF t = Owner THEN FALSE ELSE borrowed
    /\ last' = Event(t, op, "panic")

\* ---- NeovimClient::clear ----------------------------------------------
\* The slots after clear() when it runs to its end.
clear_slots_exclusive_only(excl, shared) == <<None, shared>>

clear_slots(excl, shared) ==
    IF excl # None THEN <<None, shared>> ELSE <<excl, None>>

Client_clear ==
    /\ pc[Owner] = "idle"
    /\ IF borrowed
       THEN /\ Unwind(Owner, FALSE, "clear")
            /\ UNCHANGED <<nvim, init_cleared>>
       ELSE IF nvim # None
       THEN /\ nvim' = clear_slots(nvim, nvim_async)[1]
            /\ init_cleared' = TRUE
            /\ last' = Event(Owner, "clear", "done")
            /\ UNCHANGED <<pc, ref, holder, poisoned, borrowed>>
       ELSE /\ pc' = [pc EXCEPT ![Owner] = "clear"]
            /\ borrowed' = TRUE
            /\ last' = Event(Owner, "clear", "wait")
            /\ UNCHANGED <<nvim, init_cleared, ref, holder, poisoned>>
    /\ UNCHANGED <<state, nvim_async, arg, cloned, init_had>>

Client_clear_no_lock ==
    /\ pc[Owner] = "clear"
    /\ nvim_async' = clear_slots(nvim, nvim_async)[2]
    /\ init_cleared' = TRUE
    /\ pc' = [pc EXCEPT ![Owner] = "idle"]
    /\ borrowed' = FALSE
    /\ last' = Event(Owner, "clear", "done")
    /\ UNCHANGED <<ref, holder, poisoned, state, nvim, arg, cloned, init_had>>

Client_clear_lock ==
    /\ pc[Owner] = "clear"
    /\ holder = Free
    /\ IF poisoned
       THEN /\ Unwind(Owner, TRUE, "clear")
            /\ UNCHANGED <<nvim_async, init_cleared>>
       ELSE /\ nvim_async' = clear_slots(nvim, nvim_async)[2]
            /\ init_cleared' = TRUE
            /\ pc' = [pc EXCEPT ![Owner] = "idle"]
            /\ borrowed' = FALSE
            /\ last' = Event(Owner, "clear", "done")
            /\ UNCHANGED <<ref, holder, poisoned>>
    /\ UNCHANGED <<state, nvim, arg, cloned, init_had>>

\* ---- NeovimClient::async_to_sync --------------------------------------
Client_async_to_sync ==
    /\ pc[Owner] = "idle"
    /\ pc' = [pc EXCEPT ![Owner] = "async_to_sync"]
    /\ last' = Event(Owner, "async_to_sync", "wait")
    /\ UNCHANGED <<state, nvim, nvim_async, holder, poisoned, borrowed, ref, arg,
                   cloned, init_had, init_cleared>>

\* The slots after `lock.take()` and the assignment to the exclusive slot.
async_to_sync_slots_copy(excl, shared) == <<shared, shared>>

async_to_sync_slots_drop(excl, shared) == <<excl, None>>

async_to_sync_slots(excl, shared) == <<shared, None>>

\* `lock.take().unwrap()` panics when the shared slot is empty.
take_unwrap_never_panics(shared) == FALSE

take_unwrap_panics(shared) == shared = None

Client_async_to_sync_no_lock ==
    /\ pc[Owner] = "async_to_sync"
    /\ IF poisoned \/ take_unwrap_panics(nvim_async)
       THEN /\ Unwind(Owner, TRUE, "async_to_sync")
            /\ UNCHANGED <<nvim, nvim_async>>
       ELSE IF borrowed
       THEN /\ Unwind(Owner, TRUE, "async_to_sync")
            /\ nvim_async' = None
            /\ UNCHANGED nvim
       ELSE /\ nvim' = async_to_sync_slots(nvim, nvim_async)[1]
            /\ nvim_async' = async_to_sync_slots(nvim, nvim_async)[2]
            /\ pc' = [pc EXCEPT ![Owner] = "idle"]
            /\ last' = Event(Owner, "async_to_sync", "done")
            /\ UNCHANGED <<ref, holder, poisoned, borrowed>>
    /\ UNCHANGED <<state, arg, cloned, init_had, init_cleared>>

Client_async_to_sync_lock ==
    /\ pc[Owner] = "async_to_sync"
    /\ holder = Free
    /\ IF poisoned \/ take_unwrap_panics(nvim_async)
       THEN \* lock().unwrap() or take().unwrap() panics under the guard
            /\ Unwind(Owner, TRUE, "async_to_sync")
            /\ UNCHANGED <<nvim, nvim_async>>
       ELSE IF borrowed
       THEN \* borrow_mut() panics: the session taken is dropped
            /\ Unwind(Owner, TRUE, "async_to_sync")
            /\ nvim_async' = None
            /\ UNCHANGED nvim
       ELSE /\ nvim' = async_to_sync_slots(nvim, nvim_async)[1]
            /\ nvim_async' = async_to_sync_slots(nvim, nvim_async)[2]
            /\ pc' = [pc EXCEPT ![Owner] = "idle"]
            /\ last' = Event(Owner, "async_to_sync", "done")
            /\ UNCHANGED <<ref, holder, poisoned, borrowed>>
    /\ UNCHANGED <<state, arg, cloned, init_had, init_cleared>>

\* ---- NeovimClient::set_nvim_async -------------------------------------
\* The session passed in is a fresh one: it is in no slot (the lowest
\* session id not in use stands for it).
Fresh(s) ==
    /\ s \notin {nvim, nvim_async}
    /\ \A s2 \in Sessions : s2 < s => s2 \in {nvim, nvim_async}

Client_set_nvim_async(s) ==
    /\ pc[Owner] = "idle"
    /\ Fresh(s)
    /\ pc' = [pc EXCEPT ![Owner] = "set_nvim_async"]
    /\ arg' = s
    /\ last' = Event(Owner, "set_nvim_async", "wait")
    /\ UNCHANGED <<state, nvim, nvim_async, holder, poisoned, borrowed, ref,
                   cloned, init_had, init_cleared>>

Client_set_nvim_async_no_lock ==
    /\ pc[Owner] = "set_nvim_async"
    /\ nvim_async' = arg
    /\ cloned' = TRUE
    /\ pc' = [pc EXCEPT ![Owner] = "idle"]
    /\ last' = Event(Owner, "set_nvim_async", "done")
    /\ arg' = None
    /\ UNCHANGED <<ref, holder, poisoned, borrowed, state, nvim, init_had, init_cleared>>

Client_set_nvim_async_lock ==
    /\ pc[Owner] = "set_nvim_async"
    /\ holder = Free
    /\ IF poisoned
       THEN /\ Unwind(Owner, TRUE, "set_nvim_async")
            /\ UNCHANGED <<nvim_async, cloned>>
       ELSE /\ nvim_async' = arg
            /\ cloned' = TRUE
            /\ pc' = [pc EXCEPT ![Owner] = "idle"]
            /\ last' = Event(Owner, "set_nvim_async", "done")
            /\ UNCHANGED <<ref, holder, poisoned, borrowed>>
    /\ arg' = None
    /\ UNCHANGED <<state, nvim, init_had, init_cleared>>

\* ---- lifecycle state ---------------------------------------------------
Client_set_initialized_keeps ==
    /\ pc[Owner] = "idle"
    /\ state' = IF state = "InitInProgress" THEN "Initialized" ELSE state
    /\ init_had' = (nvim # None \/ nvim_async # None)
    /\ init_cleared' = FALSE
    /\ last' = Event(Owner, "set_initialized", state)
    /\ UNCHANGED <<nvim, nvim_async, holder, poisoned, borrowed, pc, ref, arg, cloned>>

\* The event of a setter records the state it replaces.
Client_set_initialized ==
    /\ pc[Owner] = "idle"
    /\ state' = "Initialized"
    /\ init_had' = (nvim # None \/ nvim_async # None)
    /\ init_cleared' = FALSE
    /\ last' = Event(Owner, "set_initialized", state)
    /\ UNCHANGED <<nvim, nvim_async, holder, poisoned, borrowed, pc, ref, arg, cloned>>

Client_set_error_resets ==
    /\ pc[Owner] = "idle"
    /\ state' = "Uninitialized"
    /\ last' = Event(Owner, "set_error", state)
    /\ UNCHANGED <<nvim, nvim_async, holder, poisoned, borrowed, pc, ref, arg,
                   cloned, init_had, init_cleared>>

Client_set_error ==
    /\ pc[Owner] = "idle"
    /\ state' = "Error"
    /\ last' = Event(Owner, "set_error", state)
    /\ UNCHANGED <<nvim, nvim_async, holder, poisoned, borrowed, pc, ref, arg,
                   cloned, init_had, init_cleared>>

Client_set_in_progress ==
    /\ pc[Owner] = "idle"
    /\ state' = "InitInProgress"
    /\ last' = Event(Owner, "set_in_progress", state)
    /\ UNCHANGED <<nvim, nvim_async, holder, poisoned, borrowed, pc, ref, arg,
                   cloned, init_had, init_cleared>>

is_initialized == state = "Initialized"

is_uninitialized_not_initialized == state # "Initialized"

is_uninitialized == state = "Uninitialized"

is_initializing == state = "InitInProgress"

\* ---- NeovimRef::try_nvim_async / from_nvim_async -----------------------
\* try_lock() gives Ok only when the mutex is free and not poisoned.
try_lock_ok(t) == holder = Free /\ ~poisoned

\* The result of try_nvim_async for thread t.
try_nvim_async_no_is_some(t) ==
    IF try_lock_ok(t) THEN "MultiThreaded" ELSE "None"

try_nvim_async_no_try_lock(t) ==
    IF nvim_async # None THEN "MultiThreaded" ELSE "None"

try_nvim_async(t) ==
    IF try_lock_ok(t) /\ nvim_async # None THEN "MultiThreaded" ELSE "None"

\* The result of from_nvim_async once the lock is acquired.
from_nvim_async_no_is_some == "MultiThreaded"

from_nvim_async == IF nvim_async # None THEN "MultiThreaded" ELSE "None"

\* Thread t returns result r ("None" or a variant) from a borrow call; a
\* reference t already holds stays with t when the result is absent.
Return(t, r, op) ==
    /\ ref' = [ref EXCEPT ![t] = IF r = "None" THEN ref[t] ELSE r]
    /\ holder' = IF r = "MultiThreaded" THEN t ELSE holder
    /\ last' = Event(t, op, r)

from_nvim_async_relock(t, op) ==
    /\ pc[t] = "from_nvim_async"
    /\ IF poisoned
       THEN Unwind(t, TRUE, op)
       ELSE /\ Return(t, from_nvim_async, op)
            /\ pc' = [pc EXCEPT ![t] = "idle"]
            /\ borrowed' = IF t = Owner THEN FALSE ELSE borrowed
            /\ UNCHANGED poisoned
    /\ UNCHANGED <<state, nvim, nvim_async, arg, cloned, init_had, init_cleared>>

\* The rest of from_nvim_async once lock() returns (blocking borrow).
from_nvim_async_lock(t, op) ==
    /\ pc[t] = "from_nvim_async"
    /\ holder = Free
    /\ IF poisoned
       THEN Unwind(t, TRUE, op)
       ELSE /\ Return(t, from_nvim_async, op)
            /\ pc' = [pc EXCEPT ![t] = "idle"]
            /\ borrowed' = IF t = Owner THEN FALSE ELSE borrowed
            /\ UNCHANGED poisoned
    /\ UNCHANGED <<state, nvim, nvim_async, arg, cloned, init_had, init_cleared>>

\* ---- NeovimClientAsync::borrow / try_borrow (worker threads) -----------
Async_borrow(w) ==
    /\ cloned
    /\ pc[w] = "idle"
    /\ pc' = [pc EXCEPT ![w] = "from_nvim_async"]
    /\ last' = Event(w, "borrow", "wait")
    /\ UNCHANGED <<state, nvim, nvim_async, holder, poisoned, borrowed, ref, arg,
                   cloned, init_had, init_cleared>>

Async_borrow_lock(w) == from_nvim_async_lock(w, "borrow")

Async_try_borrow_unwrap(w) ==
    /\ cloned
    /\ pc[w] = "idle"
    /\ IF try_lock_ok(w)
       THEN /\ Return(w, try_nvim_async(w), "try_borrow")
            /\ UNCHANGED <<pc, poisoned, borrowed>>
       ELSE Unwind(w, FALSE, "try_borrow")
    /\ UNCHANGED <<state, nvim, nvim_async, arg, cloned, init_had, init_cleared>>

Async_try_borrow(w) ==
    /\ cloned
    /\ pc[w] = "idle"
    /\ Return(w, try_nvim_async(w), "try_borrow")
    /\ UNCHANGED <<state, nvim, nvim_async, poisoned, borrowed, pc, arg, cloned,
                   init_had, init_cleared>>

\* ---- NeovimClient::nvim / try_nvim (owning thread) ---------------------
\* `nvim.is_some()`: the exclusive slot is occupied.
nvim_is_some_never == FALSE

nvim_is_some == nvim # None

Client_nvim ==
    /\ pc[Owner] = "idle"
    /\ IF borrowed
       THEN Unwind(Owner, FALSE, "nvim")
       ELSE IF nvim_is_some
       THEN /\ Return(Owner, "SingleThreaded", "nvim")
            /\ borrowed' = TRUE
            /\ UNCHANGED <<pc, poisoned>>
       ELSE /\ pc' = [pc EXCEPT ![Owner] = "from_nvim_async"]
            /\ borrowed' = TRUE
            /\ last' = Event(Owner, "nvim", "wait")
            /\ UNCHANGED <<ref, holder, poisoned>>
    /\ UNCHANGED <<state, nvim, nvim_async, arg, cloned, init_had, init_cleared>>

Client_nvim_lock == from_nvim_async_lock(Owner, "nvim")

Client_try_nvim ==
    /\ pc[Owner] = "idle"
    /\ IF borrowed
       THEN Unwind(Owner, FALSE, "try_nvim")
       ELSE IF nvim_is_some
       THEN /\ Return(Owner, "SingleThreaded", "try_nvim")
            /\ borrowed' = TRUE
            /\ UNCHANGED <<pc, poisoned>>
       ELSE /\ Return(Owner, try_nvim_async(Owner), "try_nvim")
            /\ UNCHANGED <<pc, poisoned, borrowed>>
    /\ UNCHANGED <<state, nvim, nvim_async, arg, cloned, init_had, init_cleared>>

\* ---- Deref / DerefMut for NeovimRef ------------------------------------
\* The slot a reference of thread t dereferences to: the exclusive slot
\* through the RefMut, the shared slot through the MutexGuard.
Deref(t) ==
    IF ref[t] = "SingleThreaded" THEN nvim
    ELSE IF ref[t] = "MultiThreaded" THEN nvim_async
    ELSE None

\* ---- dropping a NeovimRef ----------------------------------------------
\* Dropping a MultiThreaded reference drops the MutexGuard; dropping a
\* SingleThreaded reference drops the RefMut.
Drop(t) ==
    /\ ref' = [ref EXCEPT ![t] = "None"]
    /\ holder' = IF ref[t] = "MultiThreaded" THEN Free ELSE holder
    /\ borrowed' = IF ref[t] = "SingleThreaded" THEN FALSE ELSE borrowed

Ref_drop(t) ==
    /\ pc[t] = "idle"
    /\ ref[t] # "None"
    /\ Drop(t)
    /\ last' = Event(t, "drop", "done")
    /\ UNCHANGED <<state, nvim, nvim_async, poisoned, pc, arg, cloned, init_had,
                   init_cleared>>

\* ---- NeovimRef::non_blocked --------------------------------------------
as_str(k) == IF k = "nonstr" THEN "None" ELSE k
as_bool(v) == IF v = "true" THEN "true" ELSE IF v = "false" THEN "false" ELSE "None"

\* ErrorReport::ok_and_report: Ok(v) gives Some(v), Err is logged and gives None.
ok_and_report(reply) == reply.ok

\* The index of the first entry whose key is the string "blocking", or 0.
RECURSIVE find_blocking(_, _)
find_blocking(mode, i) ==
    IF i > Len(mode) THEN 0
    ELSE IF (IF as_str(mode[i][1]) = "None" THEN FALSE ELSE as_str(mode[i][1]) = "blocking")
         THEN i
         ELSE find_blocking(mode, i + 1)

\* TRUE when non_blocked returns Some(self) for this reply of get_mode().
non_blocked_unwrap_or_true(reply) ==
    /\ ok_and_report(reply)
    /\ LET i == find_blocking(reply.mode, 1) IN
       /\ i # 0
       /\ as_bool(reply.mode[i][2]) = "false"

non_blocked(reply) ==
    /\ ok_and_report(reply)
    /\ LET i == find_blocking(reply.mode, 1) IN
       /\ i # 0
       /\ LET block == IF as_bool(reply.mode[i][2]) = "None" THEN FALSE
                       ELSE as_bool(reply.mode[i][2]) = "true"
          IN ~block

Ref_non_blocked_leaks_guard(t, reply) ==
    /\ pc[t] = "idle"
    /\ ref[t] # "None"
    /\ ref' = [ref EXCEPT ![t] = IF non_blocked(reply) THEN ref[t] ELSE "None"]
    /\ last' = [thr |-> t, op |-> "non_blocked",
                res |-> IF non_blocked(reply) THEN ref[t] ELSE "None",
                reply |-> reply]
    /\ UNCHANGED <<state, nvim, nvim_async, holder, borrowed, poisoned, pc, arg,
                   cloned, init_had, init_cleared>>

Ref_non_blocked(t, reply) ==
    /\ pc[t] = "idle"
    /\ ref[t] # "None"
    /\ IF non_blocked(reply)
       THEN UNCHANGED <<ref, holder, borrowed>>
       ELSE Drop(t)
    /\ last' = [thr |-> t, op |-> "non_blocked",
                res |-> IF non_blocked(reply) THEN ref[t] ELSE "None",
                reply |-> reply]
    /\ UNCHANGED <<state, nvim, nvim_async, poisoned, pc, arg, cloned, init_had,
                   init_cleared>>

\* ---- the system --------------------------------------------------------
Next ==
    \/ Client_clear
    \/ Client_clear_lock
    \/ Client_async_to_sync
    \/ Client_async_to_sync_lock
    \/ \E s \in Sessions : Client_set_nvim_async(s)
    \/ Client_set_nvim_async_lock
    \/ Client_set_initialized
    \/ Client_set_error
    \/ Client_set_in_progress
    \/ Client_nvim
    \/ Client_nvim_lock
    \/ Client_try_nvim
    \/ \E w \in Workers : Async_borrow(w)
    \/ \E w \in Workers : Async_borrow_lock(w)
    \/ \E w \in Workers : Async_try_borrow(w)
    \/ \E t \in Threads : Ref_drop(t)
    \/ \E t \in Threads : \E reply \in ModeReplies : Ref_non_blocked(t, reply)

Spec == Init /\ [][Next]_vars

\* ---- scheduling ---------------------------------------------------------
\* lock() returns once the mutex is available: a thread waiting in lock() is
\* not passed over forever while the mutex is free again and again.
Client_lock ==
    \/ Client_clear_lock
    \/ Client_async_to_sync_lock
    \/ Client_set_nvim_async_lock
    \/ Client_nvim_lock

Fairness ==
    /\ SF_vars(Client_lock)
    /\ \A w \in Workers : SF_vars(Async_borrow_lock(w))

LiveSpec == Init /\ [][Next]_vars /\ Fairness

TypeOK ==
    /\ state \in NeovimClientState
    /\ nvim \in Sessions \cup {None}
    /\ nvim_async \in Sessions \cup {None}
    /\ holder \in Threads \cup {Free}
    /\ poisoned \in BOOLEAN
    /\ borrowed \in BOOLEAN
    /\ pc \in [Threads -> {"idle", "clear", "async_to_sync", "set_nvim_async",
                           "from_nvim_async", "panicked"}]
    /\ ref \in [Threads -> NeovimRef \cup {"None"}]
    /\ arg \in Sessions \cup {None}
    /\ cloned \in BOOLEAN

\* ======================================================================
\* Properties
\* ======================================================================
WaitPcs == {"clear", "async_to_sync", "set_nvim_async", "from_nvim_async"}

\* The step is thread t's call of operation op (its first step).
Calls(t, op) == pc[t] = "idle" /\ last'.thr = t /\ last'.op = op

\* The step is the end of thread t's operation op that waited for the lock.
Resumes(t, op) == pc[t] \in WaitPcs /\ last'.thr = t /\ last'.op = op

BothSlots == nvim # None /\ nvim_async # None

\* ---- C1 ---------------------------------------------------------------
\* C1 as stated: in every reachable state at most one of the two slots
\* holds a Session, also when set_nvim_async runs again after a promotion.
C1_AtMostOneSlot == ~BothSlots

\* C1 amended: a Session is never in both slots at once, and both slots
\* become occupied only by a set_nvim_async that completes while the
\* exclusive slot is occupied (the two slots then hold different sessions).
C1_NeverDuplicated ==
    /\ [](nvim # None => nvim # nvim_async)
    /\ [][(BothSlots' /\ ~BothSlots)
            => (Resumes(Owner, "set_nvim_async") /\ last'.res = "done"
                /\ nvim # None /\ nvim' = nvim)]_vars

\* set_nvim_async has completed after a promotion: both slots are occupied.
C1_Witness ==
    /\ BothSlots
    /\ nvim # nvim_async
    /\ last = Event(Owner, "set_nvim_async", "done")

\* ---- C2 ---------------------------------------------------------------
\* C2 as stated: whenever the exclusive slot is occupied, nvim() and
\* try_nvim() return a present SingleThreaded reference in one step and
\* leave the shared slot's lock as it is.
C2_ExclusivePathAlwaysReturns ==
    [][\A op \in {"nvim", "try_nvim"} :
          (Calls(Owner, op) /\ nvim # None)
            => (/\ last'.res = "SingleThreaded"
                /\ ref'[Owner] = "SingleThreaded"
                /\ pc'[Owner] = "idle"
                /\ holder' = holder)]_vars

\* C2 amended: whenever the exclusive slot is occupied, nvim() and
\* try_nvim() take one step and leave the shared slot's lock as it is; they
\* return a present SingleThreaded reference when the owner holds no
\* SingleThreaded reference, and panic (RefCell already borrowed) when it
\* holds one.
C2_ExclusivePathLockFree ==
    [][\A op \in {"nvim", "try_nvim"} :
          (Calls(Owner, op) /\ nvim # None)
            => (/\ holder' = holder
                /\ nvim' = nvim
                /\ IF ref[Owner] = "SingleThreaded"
                   THEN last'.res = "panic" /\ pc'[Owner] = "panicked"
                   ELSE /\ last'.res = "SingleThreaded"
                        /\ ref'[Owner] = "SingleThreaded"
                        /\ pc'[Owner] = "idle")]_vars

\* The owner has borrowed from the exclusive slot while a worker holds the
\* shared slot's lock.
C2_Witness ==
    /\ nvim # None
    /\ last = Event(Owner, "nvim", "SingleThreaded")
    /\ holder \in Workers

\* ---- C3 ---------------------------------------------------------------
\* A worker's try_borrow() on an occupied shared slot whose lock is free
\* yields the session in the slot.
C3_TryBorrowYields ==
    \A w \in Workers :
        (Calls(w, "try_borrow") /\ nvim_async # None /\ holder = Free)
          => (/\ last'.res = "MultiThreaded"
              /\ ref'[w] = "MultiThreaded"
              /\ holder' = w
              /\ nvim_async' = nvim_async)

\* C3 as stated: Scenario A.  Before promotion a worker's try_borrow()
\* yields S when the lock is free; once the shared slot is empty every
\* borrow() and try_borrow() through the shared handle returns absence,
\* while the owner's nvim() returns the session in the exclusive slot.
C3_ScenarioA ==
    [][/\ C3_TryBorrowYields
       /\ \A w \in Workers :
            ((Calls(w, "try_borrow") \/ Resumes(w, "borrow")) /\ nvim_async = None)
              => last'.res = "None"
       /\ (Calls(Owner, "nvim") /\ nvim # None)
              => (last'.res = "SingleThreaded" /\ nvim' = nvim)]_vars

\* C3 amended: as stated, except that a blocking borrow() through the
\* shared handle panics instead of returning absence once a failed
\* promotion has poisoned the lock, and the owner's nvim() panics when the
\* owner already holds a SingleThreaded reference.
C3_ScenarioA_Amended ==
    [][/\ C3_TryBorrowYields
       /\ \A w \in Workers :
            (Calls(w, "try_borrow") /\ nvim_async = None) => last'.res = "None"
       /\ \A w \in Workers :
            (Resumes(w, "borrow") /\ nvim_async = None)
              => last'.res = (IF poisoned THEN "panic" ELSE "None")
       /\ (Calls(Owner, "nvim") /\ nvim # None)
              => (/\ nvim' = nvim
                  /\ last'.res = (IF ref[Owner] = "SingleThreaded"
                                  THEN "panic" ELSE "SingleThreaded"))]_vars

\* After a promotion a worker's try_borrow() has returned absence: the
\* session is in the exclusive slot.
C3_Witness ==
    /\ last.thr \in Workers
    /\ last.op = "try_borrow"
    /\ last.res = "None"
    /\ nvim # None
    /\ nvim_async = None
    /\ ~poisoned

\* ---- C4 ---------------------------------------------------------------
\* What try_borrow() / try_nvim() by t does when it goes to the shared slot
\* (a worker's call, or the owner's with the exclusive slot empty) and the
\* lock is held or the slot is empty: absence, and nothing else changes.
C4_AbsenceOnContention(t) ==
    ((t \in Workers \/ nvim = None) /\ (holder # Free \/ nvim_async = None))
      => (/\ last'.res = "None"
          /\ pc'[t] = "idle"
          /\ holder' = holder
          /\ nvim' = nvim
          /\ nvim_async' = nvim_async
          /\ ref' = ref)

\* C4 as stated: try_borrow() and try_nvim() always complete in one step
\* without waiting, and return absence on contention or on an empty slot,
\* leaving the lock holder and the slots unchanged.
C4_TryBorrowAlwaysCompletes ==
    [][\A t \in Threads : \A op \in {"try_borrow", "try_nvim"} :
          Calls(t, op)
            => (/\ pc'[t] = "idle"
                /\ last'.res \in NeovimRef \cup {"None"}
                /\ C4_AbsenceOnContention(t))]_vars

\* C4 amended: try_borrow() and try_nvim() take one step and never leave
\* the caller waiting; the step returns, except that the owner's try_nvim()
\* panics when the owner already holds a SingleThreaded reference; when the
\* call goes to the shared slot and its lock is held or the slot is empty
\* it returns absence and changes neither the lock holder, nor the slots,
\* nor any reference.
C4_TryBorrowNeverWaits ==
    [][\A t \in Threads : \A op \in {"try_borrow", "try_nvim"} :
          Calls(t, op)
            => (/\ pc'[t] \notin WaitPcs
                /\ last'.res # "wait"
                /\ IF t = Owner /\ ref[t] = "SingleThreaded"
                   THEN pc'[t] = "panicked" /\ last'.res = "panic"
                   ELSE pc'[t] = "idle" /\ last'.res \in NeovimRef \cup {"None"}
                /\ C4_AbsenceOnContention(t))]_vars

\* A try_borrow() has returned absence while another thread holds the lock
\* of the occupied shared slot.
C4_Witness ==
    /\ last.op \in {"try_borrow", "try_nvim"}
    /\ last.res = "None"
    /\ holder \notin {Free, last.thr}
    /\ nvim_async # None
    /\ pc[last.thr] = "idle"

\* ---- C5 ---------------------------------------------------------------
\* C5 as stated: after clear() has run neither slot holds a session.
C5_ClearEmptiesBothSlots ==
    (last.op = "clear" /\ last.res = "done") => (nvim = None /\ nvim_async = None)

\* C5 amended: clear() empties the exclusive slot if it is occupied and
\* the shared slot otherwise.  From a state where at most one slot is
\* occupied, neither slot holds a session after clear(), and clear() with
\* nothing installed changes nothing; from a state where both slots are
\* occupied the shared slot keeps its session, and the next clear()
\* empties it.
C5_ClearIdempotent ==
    [][(last'.thr = Owner /\ last'.op = "clear" /\ last'.res = "done")
         => (/\ nvim' = None
             /\ ~BothSlots => nvim_async' = None
             /\ BothSlots => nvim_async' = nvim_async
             /\ (nvim = None /\ nvim_async = None)
                  => UNCHANGED <<state, nvim, nvim_async, holder, poisoned, ref,
                                 cloned>>
             /\ pc'[Owner] = "idle"
             /\ borrowed' = FALSE)]_vars

\* clear() has emptied the slots of a client that had a session installed.
C5_Witness ==
    /\ last = Event(Owner, "clear", "done")
    /\ cloned
    /\ nvim = None
    /\ nvim_async = None

\* ---- C6 ---------------------------------------------------------------
\* C6: async_to_sync() on an empty shared slot never returns: the lock is
\* free, its only step is a panic, and the exclusive slot keeps its content.
C6_PromoteEmptyAborts ==
    /\ []((pc[Owner] = "async_to_sync" /\ nvim_async = None) => holder = Free)
    /\ [][(Resumes(Owner, "async_to_sync") /\ nvim_async = None)
            => (/\ last'.res = "panic"
                /\ pc'[Owner] = "panicked"
                /\ nvim' = nvim
                /\ nvim_async' = None)]_vars

\* async_to_sync() has panicked on a shared slot that never held a session.
C6_Witness ==
    /\ last = Event(Owner, "async_to_sync", "panic")
    /\ ~cloned
    /\ pc[Owner] = "panicked"

\* ---- C7 ---------------------------------------------------------------
\* What a mode reports as "blocking": the value of its first entry whose
\* key is "blocking", or "missing".
FirstBlocking(mode) ==
    LET idx == {i \in 1..Len(mode) : mode[i][1] = "blocking"} IN
    IF idx = {} THEN "missing"
    ELSE mode[CHOOSE i \in idx : \A j \in idx : i <= j][2]

\* C7 as stated: non_blocked() returns a present reference if and only if
\* the mode query succeeds and reports blocking = false.
C7_PresentIffBlockingFalse ==
    last.op = "non_blocked"
      => ((last.res # "None")
            <=> (last.reply.ok /\ FirstBlocking(last.reply.mode) = "false"))

\* C7 amended: non_blocked() returns a present reference (the same one) if
\* and only if the mode query succeeds and its "blocking" entry is false or
\* is not a boolean; it returns absence when the query fails, when there is
\* no "blocking" entry and when blocking = true.
C7_PresentIffNotBlockingTrue ==
    last.op = "non_blocked"
      => /\ (last.res # "None")
              <=> (last.reply.ok
                   /\ FirstBlocking(last.reply.mode) \in {"false", "nonbool"})
         /\ last.res = ref[last.thr]

\* non_blocked() has returned the reference for a "blocking" entry that is
\* not a boolean.
C7_Witness ==
    /\ last.op = "non_blocked"
    /\ last.reply.ok
    /\ FirstBlocking(last.reply.mode) = "nonbool"
    /\ last.res # "None"

\* ---- C8 ---------------------------------------------------------------
\* C8: non_blocked() on a MultiThreaded reference keeps the lock with the
\* caller when it returns the reference and has released it when it
\* returns absence.
C8_NonBlockedLock ==
    [][\A t \in Threads :
          (Calls(t, "non_blocked") /\ ref[t] = "MultiThreaded")
            => (/\ holder = t
                /\ IF last'.res = "None"
                   THEN holder' = Free /\ ref'[t] = "None"
                   ELSE /\ last'.res = "MultiThreaded"
                        /\ holder' = t
                        /\ ref'[t] = "MultiThreaded"
                /\ nvim_async' = nvim_async)]_vars

\* non_blocked() on a MultiThreaded reference has returned absence after a
\* failed mode query: the lock is free and the session is still installed.
C8_Witness ==
    /\ last.op = "non_blocked"
    /\ last.res = "None"
    /\ ~last.reply.ok
    /\ nvim = None
    /\ nvim_async # None
    /\ holder = Free

\* ---- C9 ---------------------------------------------------------------
\* C9: Scenario B.  While a worker holds a MultiThreaded reference, a
\* clear() that goes to the shared slot stays waiting and the shared slot
\* keeps its session.
C9_ClearWaitsForBorrower ==
    [][\A w \in Workers :
          (ref[w] = "MultiThreaded" /\ ref'[w] = "MultiThreaded")
            => (/\ nvim_async # None
                /\ nvim_async' = nvim_async
                /\ pc[Owner] = "clear" => pc'[Owner] = "clear")]_vars

\* clear() waits for the lock while a worker holds a reference.
C9_Witness ==
    /\ pc[Owner] = "clear"
    /\ \E w \in Workers : ref[w] = "MultiThreaded" /\ holder = w
    /\ nvim_async # None

\* ---- C10 --------------------------------------------------------------
\* C10 as stated: Initialized and no clear() since the latest
\* set_initialized() imply that some slot holds a Session.
C10_InitializedHasSession ==
    (state = "Initialized" /\ ~init_cleared) => (nvim # None \/ nvim_async # None)

\* C10 amended: if some slot held a Session when set_initialized() was
\* last called and no clear() has run since, some slot holds a Session
\* (set_initialized() itself does not look at the slots).
C10_SessionKeptSinceInitialized ==
    (state = "Initialized" /\ init_had /\ ~init_cleared)
      => (nvim # None \/ nvim_async # None)

\* Initialized after the session has been promoted, with no clear() since.
C10_Witness ==
    /\ state = "Initialized"
    /\ init_had
    /\ ~init_cleared
    /\ nvim # None
    /\ nvim_async = None

\* ---- C11 --------------------------------------------------------------
Setters == {"set_initialized", "set_error", "set_in_progress"}

\* The owner is at a lock() that a worker holds.
OwnerWaitsForWorker == pc[Owner] \in WaitPcs /\ holder \in Workers

C12_OnlyPromotionAborts ==
    [][last'.res = "panic"
         => (Resumes(Owner, "async_to_sync") /\ nvim_async = None)]_vars

\* C12 amended: lock contention and an empty slot surface as an absent
\* result or as waiting, never as a panic, and try_borrow() on the shared
\* handle never panics.  The steps that panic are: async_to_sync() finding
\* the shared slot empty; nvim(), try_nvim(), clear() and async_to_sync()
\* while the owner holds a SingleThreaded reference (RefCell already
\* borrowed); and a worker's borrow() on a lock that a panic has poisoned.
C12_AbortsOnlyOnContractViolation ==
    [][last'.res = "panic"
         => \/ Resumes(Owner, "async_to_sync")
               /\ (nvim_async = None \/ ref[Owner] = "SingleThreaded")
            \/ \E op \in {"nvim", "try_nvim", "clear"} :
                 Calls(Owner, op) /\ ref[Owner] = "SingleThreaded"
            \/ \E w \in Workers : Resumes(w, "borrow") /\ poisoned]_vars

\* try_nvim() has panicked: the owner called it while holding a reference
\* to the exclusive slot.
C12_Witness ==
    /\ last = Event(Owner, "try_nvim", "panic")
    /\ nvim # None
    /\ pc[Owner] = "panicked"

\* ---- C13 --------------------------------------------------------------
\* C13 as stated: the state changes only along
\* Uninitialized -> InitInProgress -> {Initialized, Error}.
C13_TransitionsInOrder ==
    [][state' # state
         => \/ state = "Uninitialized" /\ state' = "InitInProgress"
            \/ state = "InitInProgress" /\ state' \in {"Initialized", "Error"}]_vars

\* C13 amended: each setter stores its own value whatever the state was
\* (the order Uninitialized -> InitInProgress -> {Initialized, Error} is
\* the caller's, the setters do not enforce it), and no step stores
\* Uninitialized.
C13_SettersUnconditional ==
    /\ last.op = "set_initialized" => state = "Initialized"
    /\ last.op = "set_error" => state = "Error"
    /\ last.op = "set_in_progress" => state = "InitInProgress"
    /\ last.op \in Setters => last.res \in NeovimClientState
    /\ (state = "Uninitialized") => (last.op \notin Setters /\ ~init_had)

\* set_initialized() has been called in state Uninitialized.
C13_Witness ==
    /\ last = Event(Owner, "set_initialized", "Uninitialized")
    /\ state = "Initialized"

\* ---- C14 --------------------------------------------------------------
\* C14: only the three setters change the lifecycle state, and once the
\* state has left Uninitialized (a setter has run) no step, clear()
\* included, brings it back.
C14_OnlySettersChangeState ==
    [][/\ state' # state => (Calls(Owner, last'.op) /\ last'.op \in Setters)
       /\ last'.op \in Setters => ~is_uninitialized'
       /\ ~is_uninitialized => ~is_uninitialized']_vars

\* clear() has run after a setter: the state is still the setter's.
C14_Witness ==
    /\ last = Event(Owner, "clear", "done")
    /\ state = "Initialized"
    /\ ~is_uninitialized

\* ---- C15 --------------------------------------------------------------
\* C15: in state Error none of the three predicates is true, the state
\* stays Error until the next setter call, and at most one predicate is
\* true in any state.
C15_ErrorPredicates ==
    /\ [](/\ last.op = "set_error" => state = "Error"
          /\ state = "Error"
               => (~is_initialized /\ ~is_uninitialized /\ ~is_initializing)
          /\ ~(is_initialized /\ is_uninitialized)
          /\ ~(is_initialized /\ is_initializing)
          /\ ~(is_uninitialized /\ is_initializing))
    /\ [][(state = "Error" /\ last'.op \notin Setters) => state' = "Error"]_vars

\* Another operation has run after set_error(): the state is still Error.
C15_Witness ==
    /\ state = "Error"
    /\ last.op = "try_nvim"
    /\ ~is_initialized /\ ~is_uninitialized /\ ~is_initializing

\* ---- C16 ----
\* C16: borrowing grants exclusive access. In every reachable state every
\* live reference dereferences to an occupied slot, no two threads hold
\* references to the same Session, a shared-origin reference is held by
\* exactly the thread that holds the shared lock (so at most one exists), and
\* an exclusive-origin reference is held by the owner only.
Live == {t \in Threads : ref[t] # "None"}

C16_ExclusiveAccess ==
    /\ \A t \in Live : Deref(t) # None
    /\ \A t1, t2 \in Live : t1 # t2 => Deref(t1) # Deref(t2)
    /\ \A t \in Threads : ref[t] = "MultiThreaded" <=> holder = t
    /\ Cardinality({t \in Threads : ref[t] = "MultiThreaded"}) <= 1
    /\ \A t \in Threads : ref[t] = "SingleThreaded" => (t = Owner /\ borrowed)

\* The owner holds an exclusive-origin reference while a worker holds a
\* shared-origin one: two live references, to two different sessions.
C16_Witness ==
    /\ ref[Owner] = "SingleThreaded"
    /\ \E w \in Workers : ref[w] = "MultiThreaded"
    /\ BothSlots

\* ---- C17 ----
\* C17: right after a blocking borrow (borrow() of a worker, or nvim() of the
\* owner through the shared slot) has returned: if it returned a reference,
\* the shared slot is occupied and the caller holds the lock; if it returned
\* absence, the shared slot is empty, the lock is free and the caller holds
\* nothing, so no other thread is held up by it.
C17_BlockingBorrowReturn ==
    \A t \in Threads :
        (last.thr = t /\ last.op \in {"borrow", "nvim"}) =>
            /\ last.res = "MultiThreaded"
                 => (nvim_async # None /\ holder = t /\ ref[t] = "MultiThreaded")
            /\ last.res = "None"
                 => /\ nvim_async = None
                    /\ holder = Free
                    /\ ref[t] = "None"
                    /\ pc[t] = "idle"

\* A worker's blocking borrow() has found the shared slot empty.
C17_Witness ==
    /\ last.thr \in Workers
    /\ last.op = "borrow"
    /\ last.res = "None"
    /\ holder = Free
    /\ ~poisoned

\* ---- C18 ----
\* C18: while a thread holds a shared-origin reference the shared slot is
\* occupied, and no step of any thread (clear, promotion, install included)
\* changes the slot's content.
C18_SharedSlotPinned ==
    [][\A t \in Threads :
          ref[t] = "MultiThreaded"
            => (nvim_async # None /\ nvim_async' = nvim_async)]_vars

\* The owner waits in install_async with a new session while a worker holds a
\* shared-origin reference to the current one.
C18_Witness ==
    /\ pc[Owner] = "set_nvim_async"
    /\ arg # None
    /\ arg # nvim_async
    /\ \E w \in Workers : ref[w] = "MultiThreaded"

\* ---- C19 ----
\* C19: a worker's borrow()/try_borrow() racing a promotion. A worker that
\* holds a reference holds it to a session in the shared slot that is not the
\* session of the exclusive slot; a promotion that has just taken effect left
\* no worker with a reference; a worker's call that ends with the shared slot
\* empty returned absence; the call aborts only on a lock poisoned by an
\* aborted promotion, and try_borrow never.
WorkerBorrowed == last.thr \in Workers /\ last.op \in {"borrow", "try_borrow"}

RefsReleased == \A t \in Threads : []<>(ref[t] # "MultiThreaded")

\* A thread that waits for the shared lock while it holds a shared-origin
\* reference itself stays in the call, holding the reference.
SelfHolderStuck ==
    [][\A t \in Threads :
          (pc[t] \in WaitPcs /\ ref[t] = "MultiThreaded")
            => (pc'[t] = pc[t] /\ ref'[t] = ref[t])]_vars

\* C20 as stated: with references released again and again, every call
\* waiting for the shared lock is followed by the caller being back from the
\* call (idle); a thread waiting while it holds a shared-origin reference
\* never leaves the call.
C20_WaitsComplete ==
    /\ RefsReleased => \A t \in Threads : (pc[t] \in WaitPcs) ~> (pc[t] = "idle")
    /\ SelfHolderStuck

\* C20 amended: with references released again and again, every call waiting
\* for the shared lock ends: it completes or it aborts, and it aborts only on
\* a poisoned lock or, for promotion, with the shared slot empty or with the
\* exclusive slot borrowed; a thread waiting while it holds a shared-origin
\* reference never leaves the call.
C20_WaitsEnd ==
    /\ RefsReleased => \A t \in Threads : (pc[t] \in WaitPcs) ~> (pc[t] \notin WaitPcs)
    /\ SelfHolderStuck
    /\ [][\A t \in Threads :
             (pc[t] \in WaitPcs /\ pc'[t] = "panicked")
               => \/ poisoned
                  \/ /\ t = Owner
                     /\ pc[t] = "async_to_sync"
                     /\ (nvim_async = None \/ borrowed)]_vars

\* A worker waits in borrow() for the lock held by the owner, who holds a
\* shared-origin reference and has called clear(): the owner never returns.
C20_Witness ==
    /\ pc[Owner] = "clear"
    /\ ref[Owner] = "MultiThreaded"
    /\ \E w \in Workers : pc[w] = "from_nvim_async" /\ ref[w] = "None"

====
